---- MODULE Spec2Model ----
(***************************************************************************)
(* Model of the notification system: the HTTP handler (notificationHandler)*)
(* with its in-memory NotificationStore, the result poller (GetResults),   *)
(* the Kafka wrapper (SendKafkaMessage / ConsumeClaim), the listener on    *)
(* the "processed" topic (ReceiveProcessedNotification) and the three      *)
(* delivery services (emailService, smsService, slackService).             *)
(*                                                                         *)
(* Strings the code builds by concatenation are sequences of text pieces,  *)
(* so "contains" is "has as a contiguous run of pieces".  Form fields that *)
(* the code parses (max_retry_attempts) are sequences of characters.       *)
(***************************************************************************)
EXTENDS Integers, Sequences, FiniteSets, Bags, TLC

(* ------------------------------ bounds -------------------------------- *)

\* HTTP requests in flight, and the ids uuid.New() can hand out.  Spec runs
\* the requests of SoloReqs with redelivery; ConcSpec runs those of Reqs
\* concurrently, each message delivered once.
Reqs     == {"r1", "r2"}
SoloReqs == {"r1"}
Ids      == {"u1", "u2"}
\* Times a consumer group may resume from an offset it already read
\* (at-least-once delivery), over all topics.
MaxRewinds == 1
\* Range of max_retry_attempts given to a worker in WorkerSpec.
MinRetryInput == 0 - 2
MaxRetryInput == 7
\* Broker errors one run of ReceiveKafkaMessage meets.
MaxBrokerErrors == 2

(* ------------------------- program constants -------------------------- *)

maxNumberDefaultRetries == <<"5">>
maxEmailRetries == 5
Modes == {"email", "sms", "slack"}

\* Error texts an external delivery call can return.
Errs == {"e1", "e2"}
AttemptResults == {"ok"} \cup Errs

NoId == "none"

(* --------------------------- models.Notification ---------------------- *)

ZeroNotification ==
    [Mode |-> "", Message |-> "", MaxRetryAttempts |-> 0, Recipient |-> "",
     TimeStamp |-> 0, MessageID |-> NoId, NumOfRepetitions |-> 0,
     IsSent |-> FALSE, FailReason |-> <<>>]

\* The struct literal notificationHandler passes to Add.
NewNotification(mode, message, maxRetryAttempts, recipient) ==
    [Mode |-> mode, Message |-> message, MaxRetryAttempts |-> maxRetryAttempts,
     Recipient |-> recipient, TimeStamp |-> 0, MessageID |-> NoId,
     NumOfRepetitions |-> 0, IsSent |-> FALSE, FailReason |-> <<>>]

(* ------------------------------ strconv.Atoi -------------------------- *)

Digits == <<"0", "1", "2", "3", "4", "5", "6", "7", "8", "9">>

IsDigit(c) == \E i \in 1..10 : Digits[i] = c

DigitVal(c) == (CHOOSE i \in 1..10 : Digits[i] = c) - 1

RECURSIVE DigitsVal(_)
DigitsVal(s) ==
    IF s = <<>> THEN 0
    ELSE 10 * DigitsVal(SubSeq(s, 1, Len(s) - 1)) + DigitVal(s[Len(s)])

\* An optional sign followed by one or more decimal digits.
Atoi(s) ==
    LET signed == Len(s) > 0 /\ s[1] \in {"+", "-"}
        body   == IF signed THEN Tail(s) ELSE s
    IN  IF body = <<>> \/ \E i \in 1..Len(body) : ~IsDigit(body[i])
        THEN [err |-> TRUE, val |-> 0]
        ELSE [err |-> FALSE,
              val |-> IF signed /\ s[1] = "-" THEN 0 - DigitsVal(body)
                      ELSE DigitsVal(body)]

(* --------------------------- NotificationStore ------------------------ *)

\* ns.data[messageID] of a missing key is the zero value.
Get(d, messageID) ==
    IF messageID \in DOMAIN d THEN d[messageID] ELSE ZeroNotification

Update(d, messageID, notification) ==
    [k \in DOMAIN d \cup {messageID} |->
        IF k = messageID THEN notification ELSE d[k]]

Delete(d, messageID) ==
    IF messageID \in DOMAIN d
    THEN [k \in DOMAIN d \ {messageID} |-> d[k]]
    ELSE d

\* AddAt without the assignment of notification.MessageID.
AddAt_NoMessageID(d, notification, messageID) ==
    Update(d, messageID, [notification EXCEPT !.TimeStamp = 1])

\* The body of Add's loop once a candidate id is free.
AddAt(d, notification, messageID) ==
    Update(d, messageID,
           [notification EXCEPT !.TimeStamp = 1, !.MessageID = messageID])

maxChecks == 500

\* The ids the successive uuid.New() calls of one Add return: the first
\* `collisions` of them are `key`, every later one is `fresh`.
Draws(collisions, key, fresh) ==
    [i \in 1..(maxChecks + 2) |-> IF i <= collisions THEN key ELSE fresh]

\* Add with `attempt < maxChecks` as the condition of the loop.
Add_StrictBound(d, notification, draws) ==
    LET attempts == 0..(maxChecks - 1)
        free(attempt) == draws[attempt + 1] \notin DOMAIN d
    IN  IF \A attempt \in attempts : ~free(attempt)
        THEN [messageID |-> NoId, err |-> TRUE, data |-> d, draws |-> maxChecks]
        ELSE LET attempt == CHOOSE i \in attempts :
                                free(i) /\ \A j \in 0..(i - 1) : ~free(j)
             IN  [messageID |-> draws[attempt + 1], err |-> FALSE,
                  data |-> AddAt(d, notification, draws[attempt + 1]),
                  draws |-> attempt + 1]

\* Add, lines 57-74: the loop runs attempt = 0, 1, .. while
\* attempt <= maxChecks and returns at the first generated id that is not a
\* key; when no iteration returns, Add returns the error.  The result is
\* what Add returns, the store it leaves, and how many ids it generated.
Add(d, notification, draws) ==
    LET attempts == 0..maxChecks
        free(attempt) == draws[attempt + 1] \notin DOMAIN d
    IN  IF \A attempt \in attempts : ~free(attempt)
        THEN [messageID |-> NoId, err |-> TRUE, data |-> d,
              draws |-> maxChecks + 1]
        ELSE LET attempt == CHOOSE i \in attempts :
                                free(i) /\ \A j \in 0..(i - 1) : ~free(j)
             IN  [messageID |-> draws[attempt + 1], err |-> FALSE,
                  data |-> AddAt(d, notification, draws[attempt + 1]),
                  draws |-> attempt + 1]

\* defer ns.mu.Unlock() releasing the lock on the error return only when
\* the call succeeded.
DeferredUnlock_OnlyOnSuccess(holder, err) == IF err THEN holder ELSE "none"

\* Line 59, defer ns.mu.Unlock(): the holder of ns.mu after Add returned.
DeferredUnlock(holder, err) == "none"

(* ------------------------- kafkawrapper encoding ---------------------- *)

\* json.Marshal of a Notification: a JSON document carrying its fields.
Marshal(notification) == [kind |-> "json", body |-> notification]

\* A value on a topic that is not a JSON document of a Notification.  body
\* records the notification its sender meant; Unmarshal cannot see it.
Undecodable(notification) == [kind |-> "garbage", body |-> notification]

\* json.Unmarshal into a zero Notification.
Unmarshal(value) ==
    IF value.kind = "json"
    THEN [err |-> FALSE, notification |-> value.body]
    ELSE [err |-> TRUE, notification |-> ZeroNotification]

(* ------------------------------ services ------------------------------ *)

\* One smtp.SendMail call; res is "ok" or the error it returned.
sendEmail(notification, res) ==
    IF res # "ok"
    THEN [notification EXCEPT
            !.IsSent = FALSE,
            !.NumOfRepetitions = @ + 1,
            !.FailReason = <<"failed to send email with following error", res>>]
    ELSE [notification EXCEPT !.IsSent = TRUE]

\* emailIteration with `>` for `>=` in the caller's-bound test.
emailIteration_OffByOne(notification, res) ==
    LET n == sendEmail(notification, res)
    IN  IF n.IsSent
        THEN [n |-> n, publish |-> TRUE, return |-> TRUE]
        ELSE IF ~n.IsSent /\ n.NumOfRepetitions > n.MaxRetryAttempts
        THEN [n |-> [n EXCEPT
                       !.FailReason = <<"Too many failed attempts.",
                                        "Last attempt failed with:">> \o @],
              publish |-> TRUE, return |-> TRUE]
        ELSE IF ~n.IsSent /\ n.NumOfRepetitions = maxEmailRetries
        THEN [n |-> [n EXCEPT
                       !.FailReason = <<"Too many failed attempts.",
                                        "Max number of retries reached.",
                                        "Last attempt failed with:">> \o @],
              publish |-> TRUE, return |-> TRUE]
        ELSE [n |-> n, publish |-> FALSE, return |-> FALSE]

\* emailIteration with the `return` of both give-up branches left out.
emailIteration_NoReturn(notification, res) ==
    LET n == sendEmail(notification, res)
    IN  IF n.IsSent
        THEN [n |-> n, publish |-> TRUE, return |-> TRUE]
        ELSE IF ~n.IsSent /\ n.NumOfRepetitions >= n.MaxRetryAttempts
        THEN [n |-> n, publish |-> TRUE, return |-> FALSE]
        ELSE IF ~n.IsSent /\ n.NumOfRepetitions = maxEmailRetries
        THEN [n |-> n, publish |-> TRUE, return |-> FALSE]
        ELSE [n |-> n, publish |-> FALSE, return |-> FALSE]

\* emailIteration with the test of the hard cap before the test of the
\* caller's bound.
emailIteration_CapFirst(notification, res) ==
    LET n == sendEmail(notification, res)
    IN  IF n.IsSent
        THEN [n |-> n, publish |-> TRUE, return |-> TRUE]
        ELSE IF ~n.IsSent /\ n.NumOfRepetitions = maxEmailRetries
        THEN [n |-> [n EXCEPT
                       !.IsSent = FALSE,
                       !.FailReason = <<"Too many failed attempts.",
                                        "Max number of retries reached.",
                                        "Last attempt failed with:">> \o @],
              publish |-> TRUE, return |-> TRUE]
        ELSE IF ~n.IsSent /\ n.NumOfRepetitions >= n.MaxRetryAttempts
        THEN [n |-> [n EXCEPT
                       !.IsSent = FALSE,
                       !.FailReason = <<"Too many failed attempts.",
                                        "Last attempt failed with:">> \o @],
              publish |-> TRUE, return |-> TRUE]
        ELSE [n |-> n, publish |-> FALSE, return |-> FALSE]

\* One iteration of emailService's loop: the notification after it, whether
\* SendKafkaMessage(processed) is called with it, and whether the service
\* returns.
emailIteration(notification, res) ==
    LET n == sendEmail(notification, res)
    IN  IF n.IsSent
        THEN [n |-> n, publish |-> TRUE, return |-> TRUE]
        ELSE IF ~n.IsSent /\ n.NumOfRepetitions >= n.MaxRetryAttempts
        THEN [n |-> [n EXCEPT
                       !.IsSent = FALSE,
                       !.FailReason = <<"Too many failed attempts.",
                                        "Last attempt failed with:">> \o @],
              publish |-> TRUE, return |-> TRUE]
        ELSE IF ~n.IsSent /\ n.NumOfRepetitions = maxEmailRetries
        THEN [n |-> [n EXCEPT
                       !.IsSent = FALSE,
                       !.FailReason = <<"Too many failed attempts.",
                                        "Max number of retries reached.",
                                        "Last attempt failed with:">> \o @],
              publish |-> TRUE, return |-> TRUE]
        ELSE [n |-> n, publish |-> FALSE, return |-> FALSE]

\* The loop of emailService from iteration emailSendCount on; results[i] is
\* the result of the i-th smtp.SendMail call of this run.
RECURSIVE emailService(_, _, _)
emailService(notification, emailSendCount, results) ==
    IF emailSendCount > maxEmailRetries
    THEN [n |-> notification, publish |-> FALSE, return |-> TRUE]
    ELSE LET it == emailIteration(notification, results[emailSendCount + 1])
         IN  IF it.return THEN it
             ELSE emailService(it.n, emailSendCount + 1, results)

sendSlack(notification, res) ==
    IF res # "ok"
    THEN [notification EXCEPT
            !.IsSent = FALSE,
            !.NumOfRepetitions = @ + 1,
            !.FailReason = <<"failed to send slack message with following error",
                             res, ".">>]
    ELSE [notification EXCEPT !.IsSent = TRUE]

slackService(notification, res) ==
    LET n == sendSlack(notification, res)
    IN  IF n.IsSent
        THEN [n |-> n, publish |-> TRUE, return |-> TRUE]
        ELSE [n |-> [n EXCEPT !.FailReason = <<"Failed to send Slack with">>],
              publish |-> TRUE, return |-> TRUE]

\* sendSms that records no reason for a failed call.
sendSms_NoReason(notification, res) ==
    IF res # "ok"
    THEN [notification EXCEPT !.IsSent = FALSE, !.NumOfRepetitions = @ + 1]
    ELSE [notification EXCEPT !.IsSent = TRUE]

sendSms(notification, res) ==
    IF res # "ok"
    THEN [notification EXCEPT
            !.IsSent = FALSE,
            !.NumOfRepetitions = @ + 1,
            !.FailReason = <<"failed to send sms with following error", res,
                             "and status", "status", ".">>]
    ELSE [notification EXCEPT !.IsSent = TRUE]

\* Lines 293-298: on an error sendSms reads smsResponse.Messages[0]; a
\* response that carries no message makes this index panic.
sendSmsPanics(res, hasMessages) == res # "ok" /\ ~hasMessages

smsService(notification, res) ==
    LET n == sendSms(notification, res)
    IN  [n |-> n, publish |-> TRUE, return |-> TRUE]

\* The service the consumer of topic `mode` starts for a notification, run to
\* its return with the given results of its delivery calls.
RunService(mode, notification, results) ==
    IF mode = "email" THEN emailService(notification, 0, results)
    ELSE IF mode = "slack" THEN slackService(notification, results[1])
    ELSE smsService(notification, results[1])

(* ------------------------- notificationHandler ------------------------ *)

\* The form fields a caller can post.
FormModes    == {"", "email", "sms", "slack", "fax"}
FormMessages == {"", "hi"}
FormRetries  == {<<>>, <<"2">>, <<"-", "1">>, <<"a">>, <<"2", "x">>, <<"-">>}
Forms ==
    [mode : FormModes, message : FormMessages, max_retry_attempts : FormRetries,
     recipient : {""}]

\* The forms posted in ConcSpec.
ConcForms ==
    {[mode |-> "email", message |-> "hi", max_retry_attempts |-> <<"2">>, recipient |-> ""],
     [mode |-> "slack", message |-> "hi", max_retry_attempts |-> <<>>, recipient |-> ""],
     [mode |-> "fax", message |-> "hi", max_retry_attempts |-> <<>>, recipient |-> ""],
     [mode |-> "sms", message |-> "", max_retry_attempts |-> <<>>, recipient |-> ""],
     [mode |-> "sms", message |-> "hi", max_retry_attempts |-> <<"2", "x">>, recipient |-> ""]}

\* os.Getenv("NS_EMAIL_DEFAULT_RECIPIENT")
DefaultRecipient == "default@example.com"

NoResponse == [code |-> 0, message |-> <<>>]

\* Validate without the check of `message`.
Validate_NoMessageCheck(f) ==
    LET max_retry_attempts == IF f.max_retry_attempts = <<>>
                              THEN maxNumberDefaultRetries
                              ELSE f.max_retry_attempts
        parsed    == Atoi(max_retry_attempts)
        recipient == IF f.mode = "email" /\ f.recipient = ""
                     THEN "default@example.com" ELSE f.recipient
    IN  IF f.mode = "" \/ (f.mode # "email" /\ f.mode # "sms" /\ f.mode # "slack")
        THEN [code |-> 400, message |-> <<"Mode is either blank or not one of the supported modes">>,
              notification |-> ZeroNotification]
        ELSE IF parsed.err
        THEN [code |-> 400, message |-> <<"'max_retry_attempts' is not an integer">>,
              notification |-> ZeroNotification]
        ELSE [code |-> 0, message |-> <<>>,
              notification |-> NewNotification(f.mode, f.message, parsed.val, recipient)]

\* The checks at the top of the handler: the 400 response they write, or the
\* notification the handler goes on to add.
Validate(f) ==
    LET max_retry_attempts == IF f.max_retry_attempts = <<>>
                              THEN maxNumberDefaultRetries
                              ELSE f.max_retry_attempts
        parsed    == Atoi(max_retry_attempts)
        recipient == IF f.mode = "email" /\ f.recipient = ""
                     THEN DefaultRecipient ELSE f.recipient
    IN  IF f.mode = "" \/ (f.mode # "email" /\ f.mode # "sms" /\ f.mode # "slack")
        THEN [code |-> 400, message |-> <<"Mode is either blank or not one of the supported modes">>,
              notification |-> ZeroNotification]
        ELSE IF f.message = ""
        THEN [code |-> 400, message |-> <<"Message is blank">>,
              notification |-> ZeroNotification]
        ELSE IF parsed.err
        THEN [code |-> 400, message |-> <<"'max_retry_attempts' is not an integer">>,
              notification |-> ZeroNotification]
        ELSE [code |-> 0, message |-> <<>>,
              notification |-> NewNotification(f.mode, f.message, parsed.val, recipient)]

VARIABLES
    data,        \* notificationStore.data
    issued,      \* ids uuid.New() has returned and Add has stored
    pc,          \* where each handler invocation is
    form,        \* the form each request posted
    messageID,   \* the id Add returned to each handler
    resp,        \* the response each handler wrote
    answers,     \* how many times each handler called ctx.JSON
    pcP,         \* where each GetResults goroutine is
    resultMsg,   \* GetResults' local resultMsg
    cancelled,   \* whether resultCtx is cancelled
    chanQ,       \* the log of each channel topic
    chanPos,     \* how far the consumer of each channel topic has read
    procQ,       \* the log of the processed topic
    procPos,     \* how far the listener has read
    procMarked,  \* the offset the listener marked last
    rewinds,     \* consumer-group resumptions so far
    pool,        \* service goroutines started and not yet run
    listener,    \* the listener inside ConsumeClaim's loop body
    receiver,    \* ReceiveKafkaMessage of the processed topic
    mu,          \* the handler holding notificationStore.mu inside Add
    addCall,     \* each handler's call of Add: its argument and results
    wk           \* the worker of WorkerSpec

vars == <<data, issued, pc, form, messageID, resp, answers, pcP, resultMsg,
          cancelled, chanQ, chanPos, procQ, procPos, procMarked, rewinds, pool,
          listener, receiver, mu, addCall, wk>>

storeVars   == <<mu, addCall>>
handlerVars == <<pc, form, messageID, resp, answers>>
pollerVars  == <<pcP, resultMsg, cancelled>>
brokerVars  == <<chanQ, chanPos, procQ, procPos, procMarked, rewinds, pool,
                 listener, receiver>>

\* A handler that has not called Add.
NoAddCall == [notification |-> ZeroNotification, messageID |-> NoId,
              err |-> FALSE, draws |-> 0]

IdleListener == [pc |-> "receive", notification |-> ZeroNotification]
IdleWorker   == [pc |-> "none", mode |-> "", notification |-> ZeroNotification,
                 emailSendCount |-> 0, attempts |-> 0, failures |-> 0,
                 lastErr |-> "", published |-> <<>>]

\* The state after construction, but for the worker of WorkerSpec and the
\* position of ReceiveKafkaMessage.
SystemInit ==
    /\ data = << >>
    /\ issued = {}
    /\ pc = [r \in Reqs |-> "start"]
    /\ form = [r \in Reqs |-> [mode |-> "", message |-> "", max_retry_attempts |-> <<>>, recipient |-> ""]]
    /\ messageID = [r \in Reqs |-> NoId]
    /\ resp = [r \in Reqs |-> NoResponse]
    /\ answers = [r \in Reqs |-> 0]
    /\ pcP = [r \in Reqs |-> "none"]
    /\ resultMsg = [r \in Reqs |-> ZeroNotification]
    /\ cancelled = [r \in Reqs |-> FALSE]
    /\ chanQ = [m \in Modes |-> <<>>]
    /\ chanPos = [m \in Modes |-> 0]
    /\ procQ = <<>>
    /\ procPos = 0
    /\ procMarked = 0
    /\ rewinds = 0
    /\ pool = EmptyBag
    /\ listener = IdleListener
    /\ mu = "none"
    /\ addCall = [r \in Reqs |-> NoAddCall]

\* ReceiveKafkaMessage inside consumerGroup.Consume, its context live.
RunningReceiver == [pc |-> "consume", ctxErr |-> FALSE, errors |-> 0]

Init == SystemInit /\ wk = IdleWorker /\ receiver = RunningReceiver

\* ctx.JSON(code, message) followed by the handler's next position.
Answer(r, code, message, next) ==
    /\ resp' = [resp EXCEPT ![r] = [code |-> code, message |-> message]]
    /\ answers' = [answers EXCEPT ![r] = @ + 1]
    /\ pc' = [pc EXCEPT ![r] = next]

\* Lines 154-194: the validity checks, then notificationStore.Add.  uuid.New()
\* returns a key of the store (Add tries again) or an id never issued before;
\* Add fails when every candidate it drew was a key of the store.
HandlerAdmit(r, F) ==
    /\ pc[r] = "start"
    /\ \E f \in F :
        LET v == Validate(f)
        IN  /\ form' = [form EXCEPT ![r] = f]
            /\ IF v.code = 400
               THEN /\ Answer(r, 400, v.message, "done")
                    /\ UNCHANGED <<data, issued, messageID>>
               ELSE \/ \E id \in Ids \ (issued \cup DOMAIN data) :
                         /\ data' = AddAt(data, v.notification, id)
                         /\ issued' = issued \cup {id}
                         /\ messageID' = [messageID EXCEPT ![r] = id]
                         /\ pc' = [pc EXCEPT ![r] = "send"]
                         /\ UNCHANGED <<resp, answers>>
                    \/ /\ DOMAIN data # {}
                       /\ Answer(r, 500, <<"Internal server error">>, "done")
                       /\ UNCHANGED <<data, issued, messageID>>
    /\ UNCHANGED <<pollerVars, brokerVars, wk, storeVars>>

\* HandlerSend publishing the notification as it was before Add, without
\* reading it back from the store.
HandlerSend_Unregistered(r) ==
    /\ pc[r] = "send"
    /\ \/ /\ chanQ' = [chanQ EXCEPT ![form[r].mode] =
                          Append(@, Marshal(Validate(form[r]).notification))]
          /\ pc' = [pc EXCEPT ![r] = "await"]
          /\ pcP' = [pcP EXCEPT ![r] = "select"]
          /\ UNCHANGED <<resp, answers>>
       \/ /\ Answer(r, 500, <<"Internal server error">>, "done")
          /\ UNCHANGED <<chanQ, pcP>>
    /\ UNCHANGED <<data, issued, form, messageID, resultMsg, cancelled, chanPos,
                   procQ, procPos, procMarked, rewinds, pool, listener, receiver, wk, storeVars>>

\* Lines 196-209: SendKafkaMessage(mode, Get(messageID)); on an error the
\* handler answers 500 and returns; otherwise it starts GetResults.
HandlerSend(r) ==
    /\ pc[r] = "send"
    /\ \/ /\ chanQ' = [chanQ EXCEPT ![form[r].mode] =
                          Append(@, Marshal(Get(data, messageID[r])))]
          /\ pc' = [pc EXCEPT ![r] = "await"]
          /\ pcP' = [pcP EXCEPT ![r] = "select"]
          /\ UNCHANGED <<resp, answers>>
       \/ /\ Answer(r, 500, <<"Internal server error">>, "done")
          /\ UNCHANGED <<chanQ, pcP>>
    /\ UNCHANGED <<data, issued, form, messageID, resultMsg, cancelled, chanPos,
                   procQ, procPos, procMarked, rewinds, pool, listener, receiver, wk, storeVars>>

\* Lines 212-225, case isSuccess := <-wasSuccessfulChan: the handler takes the
\* value GetResults is blocked sending.  On true it answers 200; on false it
\* goes on to read the reason from the store.
HandlerReceive(r) ==
    /\ pc[r] = "await"
    /\ pcP[r] \in {"sendTrue", "sendFalse"}
    /\ IF pcP[r] = "sendTrue"
       THEN /\ Answer(r, 200, <<"Notification sent successfully!">>, "delete")
            /\ pcP' = [pcP EXCEPT ![r] =
                          IF resultMsg[r].FailReason # <<>> THEN "sendFalse"
                          ELSE "select"]
            /\ resultMsg' = [resultMsg EXCEPT ![r] =
                                IF resultMsg[r].FailReason # <<>> THEN @
                                ELSE ZeroNotification]
       ELSE /\ pc' = [pc EXCEPT ![r] = "failed"]
            /\ pcP' = [pcP EXCEPT ![r] = "select"]
            /\ resultMsg' = [resultMsg EXCEPT ![r] = ZeroNotification]
            /\ UNCHANGED <<resp, answers>>
    /\ UNCHANGED <<data, issued, form, messageID, cancelled, brokerVars, wk, storeVars>>

\* The failure response written with http.StatusInternalServerError.
HandlerFailed_Status500(r) ==
    /\ pc[r] = "failed"
    /\ Answer(r, 500,
              <<"Notification sending failed after max number of attempts. Notification service error:">>
                  \o Get(data, messageID[r]).FailReason,
              "delete")
    /\ UNCHANGED <<data, issued, form, messageID, pollerVars, brokerVars, wk, storeVars>>

\* Lines 220-224: the failure response, whose reason is a second Get.
HandlerFailed(r) ==
    /\ pc[r] = "failed"
    /\ Answer(r, 408,
              <<"Notification sending failed after max number of attempts. Notification service error:">>
                  \o Get(data, messageID[r]).FailReason,
              "delete")
    /\ UNCHANGED <<data, issued, form, messageID, pollerVars, brokerVars, wk, storeVars>>

\* A select without the time.After case.
HandlerTimeout_Never(r) ==
    /\ FALSE
    /\ UNCHANGED vars

\* The timeout case returning without the Delete.
HandlerTimeout_NoDelete(r) ==
    /\ pc[r] = "await"
    /\ Answer(r, 408, <<"Notification sending timed out (", "60", " seconds)">>,
              "return")
    /\ UNCHANGED <<data, issued, form, messageID, pollerVars, brokerVars, wk, storeVars>>

\* Lines 226-230, case <-time.After(hardTimeout * time.Second).
HandlerTimeout(r) ==
    /\ pc[r] = "await"
    /\ Answer(r, 408, <<"Notification sending timed out (", "60", " seconds)">>,
              "delete")
    /\ UNCHANGED <<data, issued, form, messageID, pollerVars, brokerVars, wk, storeVars>>

\* Line 233: notificationStore.Delete(messageID).
HandlerDelete(r) ==
    /\ pc[r] = "delete"
    /\ data' = Delete(data, messageID[r])
    /\ pc' = [pc EXCEPT ![r] = "return"]
    /\ UNCHANGED <<issued, form, messageID, resp, answers, pollerVars,
                   brokerVars, wk, storeVars>>

\* Lines 206, 234: the handler returns and the deferred cancel() runs.
HandlerReturn(r) ==
    /\ pc[r] = "return"
    /\ cancelled' = [cancelled EXCEPT ![r] = TRUE]
    /\ pc' = [pc EXCEPT ![r] = "done"]
    /\ UNCHANGED <<data, issued, form, messageID, resp, answers, pcP, resultMsg,
                   brokerVars, wk, storeVars>>

Handler(r, F) ==
    \/ HandlerAdmit(r, F)
    \/ HandlerSend(r)
    \/ HandlerReceive(r)
    \/ HandlerFailed(r)
    \/ HandlerTimeout(r)
    \/ HandlerDelete(r)
    \/ HandlerReturn(r)

(* ------------------------------ GetResults ---------------------------- *)

\* AfterTick with the two sends exchanged.
AfterTick_Inverted(msg) ==
    IF msg.IsSent THEN "sendFalse"
    ELSE IF msg.FailReason # <<>> THEN "sendTrue"
    ELSE "select"

\* The position GetResults is in after reading resultMsg on a tick.
AfterTick(msg) ==
    IF msg.IsSent THEN "sendTrue"
    ELSE IF msg.FailReason # <<>> THEN "sendFalse"
    ELSE "select"

\* Lines 121-133, case <-ticker.C: read the store; a sent message blocks the
\* goroutine on `wasSuccessful <- true`, a failure reason on
\* `wasSuccessful <- false`.
GetResultsTick(r) ==
    /\ pcP[r] = "select"
    /\ LET msg == Get(data, messageID[r])
       IN  /\ pcP' = [pcP EXCEPT ![r] = AfterTick(msg)]
           /\ resultMsg' = [resultMsg EXCEPT ![r] =
                               IF AfterTick(msg) = "select" THEN ZeroNotification
                               ELSE msg]
    /\ UNCHANGED <<data, issued, handlerVars, cancelled, brokerVars, wk, storeVars>>

\* Lines 119-120, case <-ctx.Done().
GetResultsDone(r) ==
    /\ pcP[r] = "select"
    /\ cancelled[r]
    /\ pcP' = [pcP EXCEPT ![r] = "returned"]
    /\ UNCHANGED <<data, issued, handlerVars, resultMsg, cancelled, brokerVars, wk, storeVars>>

GetResults(r) == GetResultsTick(r) \/ GetResultsDone(r)

(* ------------------- channel consumers and services ------------------- *)

\* The results of the delivery calls of one service run: the first k calls
\* fail (the last of them with eLast, the earlier ones with eEarly), any
\* later call succeeds.
RunResults(k, eEarly, eLast) ==
    [i \in 1..(maxEmailRetries + 1) |->
        IF i < k THEN eEarly ELSE IF i = k THEN eLast ELSE "ok"]

ServiceRuns ==
    {RunResults(k, eEarly, eLast) :
        k \in 0..(maxEmailRetries + 1), eEarly \in Errs, eLast \in Errs}

\* The runs drawn in ConcSpec: up to three failing calls, one error text.
ConcRuns == {RunResults(k, "e1", "e1") : k \in 0..3}

\* ConsumeClaim on a channel topic, lines 112-125: decode the next message,
\* mark it, and call the hook, which starts the service goroutine.
ChannelConsume(m) ==
    /\ chanPos[m] < Len(chanQ[m])
    /\ LET u == Unmarshal(chanQ[m][chanPos[m] + 1])
       IN  /\ chanPos' = [chanPos EXCEPT ![m] = @ + 1]
           /\ pool' = IF u.err THEN pool
                      ELSE pool (+) SetToBag({[mode |-> m, notification |-> u.notification]})
    /\ UNCHANGED <<data, issued, handlerVars, pollerVars, chanQ, procQ, procPos,
                   procMarked, rewinds, listener, receiver, wk, storeVars>>

\* A started service goroutine runs to its return; its SendKafkaMessage to
\* the processed topic appends the outcome, or fails and appends nothing (as
\* does a service stopped by the panic of sendSmsPanics).
ServiceRun(Runs) ==
    /\ \E w \in BagToSet(pool), results \in Runs, sendOk \in BOOLEAN :
        LET out == RunService(w.mode, w.notification, results)
        IN  /\ pool' = pool (-) SetToBag({w})
            /\ procQ' = IF out.publish /\ sendOk
                        THEN Append(procQ, Marshal(out.n)) ELSE procQ
    /\ UNCHANGED <<data, issued, handlerVars, pollerVars, chanQ, chanPos,
                   procPos, procMarked, rewinds, listener, receiver, wk, storeVars>>

\* A service goroutine whose outcome reaches the processed topic as a value
\* json.Unmarshal rejects (kafkawrapper.go, lines 115-119).
ServiceRunUndecodable ==
    /\ \E w \in BagToSet(pool) :
        /\ pool' = pool (-) SetToBag({w})
        /\ procQ' = Append(procQ, Undecodable(w.notification))
    /\ UNCHANGED <<data, issued, handlerVars, pollerVars, chanQ, chanPos,
                   procPos, procMarked, rewinds, listener, receiver, wk, storeVars>>

\* ReceiveKafkaMessage, lines 147-155: Consume returns and is called again;
\* the group resumes from its committed offset, before what it already read.
ChannelRewind(m) ==
    /\ rewinds < MaxRewinds
    /\ \E p \in 0..(chanPos[m] - 1) : chanPos' = [chanPos EXCEPT ![m] = p]
    /\ rewinds' = rewinds + 1
    /\ UNCHANGED <<data, issued, handlerVars, pollerVars, chanQ, procQ, procPos,
                   procMarked, pool, listener, receiver, wk, storeVars>>

(* --------------------- listener on the processed topic ---------------- *)

\* ListenerReceive without the check of json.Unmarshal's error.
ListenerReceive_NoErrCheck ==
    /\ receiver.pc = "consume"
    /\ listener.pc = "receive"
    /\ procPos < Len(procQ)
    /\ LET u == Unmarshal(procQ[procPos + 1])
       IN  /\ procPos' = procPos + 1
           /\ procMarked' = procPos + 1
           /\ listener' = [pc |-> "callback", notification |-> u.notification]
    /\ UNCHANGED <<data, issued, handlerVars, pollerVars, chanQ, chanPos, procQ,
                   rewinds, pool, receiver, wk, storeVars>>

\* ConsumeClaim, lines 112-121: a message that does not decode is skipped;
\* one that does is marked, and the callback is about to run.
ListenerReceive ==
    /\ receiver.pc = "consume"
    /\ listener.pc = "receive"
    /\ procPos < Len(procQ)
    /\ LET u == Unmarshal(procQ[procPos + 1])
       IN  /\ procPos' = procPos + 1
           /\ procMarked' = IF u.err THEN procMarked ELSE procPos + 1
           /\ listener' = IF u.err THEN listener
                          ELSE [pc |-> "callback", notification |-> u.notification]
    /\ UNCHANGED <<data, issued, handlerVars, pollerVars, chanQ, chanPos, procQ,
                   rewinds, pool, receiver, wk, storeVars>>

\* Line 124 and ReceiveProcessedNotification, lines 140-142.
ReceiveProcessedNotification ==
    /\ listener.pc = "callback"
    /\ data' = Update(data, listener.notification.MessageID, listener.notification)
    /\ listener' = IdleListener
    /\ UNCHANGED <<issued, handlerVars, pollerVars, chanQ, chanPos, procQ,
                   procPos, procMarked, rewinds, pool, receiver, wk, storeVars>>

ListenerRewind ==
    /\ rewinds < MaxRewinds
    /\ listener.pc = "receive"
    /\ \E p \in 0..procMarked :
        /\ p < procPos
        /\ procPos' = p
        /\ procMarked' = p
    /\ rewinds' = rewinds + 1
    /\ UNCHANGED <<data, issued, handlerVars, pollerVars, chanQ, chanPos, procQ,
                   pool, listener, receiver, wk, storeVars>>

(* -------------------------- ReceiveKafkaMessage ----------------------- *)

\* Lines 137-145: initializeConsumerGroup succeeds, or it fails and returns a
\* nil ConsumerGroup; the error is logged and the nil value is used, by
\* `defer consumerGroup.Close()` and by `consumerGroup.Consume`: a method
\* call on a nil interface value, which panics.
ReceiverStart ==
    /\ receiver.pc = "init"
    /\ \/ receiver' = [receiver EXCEPT !.pc = "consume"]
       \/ receiver' = [receiver EXCEPT !.pc = "panicked", !.errors = @ + 1]
    /\ UNCHANGED <<data, issued, handlerVars, pollerVars, chanQ, chanPos, procQ,
                   procPos, procMarked, rewinds, pool, listener, wk, storeVars>>

\* Lines 148-151: consumerGroup.Consume returns, outside a callback, with an
\* error that is logged or with none.
ReceiverConsumeReturns ==
    /\ receiver.pc = "consume"
    /\ listener.pc = "receive"
    /\ \/ receiver' = [receiver EXCEPT !.pc = "check"]
       \/ /\ receiver.errors < MaxBrokerErrors
          /\ receiver' = [receiver EXCEPT !.pc = "check", !.errors = @ + 1]
    /\ UNCHANGED <<data, issued, handlerVars, pollerVars, chanQ, chanPos, procQ,
                   procPos, procMarked, rewinds, pool, listener, wk, storeVars>>

\* Lines 152-154: return when ctx.Err() is set, else call Consume again.
ReceiverCheck ==
    /\ receiver.pc = "check"
    /\ receiver' = [receiver EXCEPT
                      !.pc = IF receiver.ctxErr THEN "returned" ELSE "consume"]
    /\ UNCHANGED <<data, issued, handlerVars, pollerVars, chanQ, chanPos, procQ,
                   procPos, procMarked, rewinds, pool, listener, wk, storeVars>>

\* The caller of ReceiveKafkaMessage cancels the context it passed.
ReceiverCancel ==
    /\ receiver.pc \in {"init", "consume", "check"}
    /\ ~receiver.ctxErr
    /\ receiver' = [receiver EXCEPT !.ctxErr = TRUE]
    /\ UNCHANGED <<data, issued, handlerVars, pollerVars, chanQ, chanPos, procQ,
                   procPos, procMarked, rewinds, pool, listener, wk, storeVars>>

(* ------------------ Add and the lock of the store --------------------- *)

\* How many of the ids Add generates collide before a free one comes.
CollisionCounts == {0, 1, maxChecks - 1, maxChecks, maxChecks + 1}

\* Lines 154-189 and 58: the form passes the checks and the handler enters
\* Add, which takes ns.mu.
HandlerCallsAdd(r, F) ==
    /\ pc[r] = "start"
    /\ mu = "none"
    /\ \E f \in F :
        /\ Validate(f).code = 0
        /\ form' = [form EXCEPT ![r] = f]
        /\ addCall' = [addCall EXCEPT ![r] =
                          [NoAddCall EXCEPT !.notification = Validate(f).notification]]
    /\ mu' = r
    /\ pc' = [pc EXCEPT ![r] = "adding"]
    /\ UNCHANGED <<data, issued, messageID, resp, answers, pollerVars,
                   brokerVars, wk>>

\* Lines 61-73: the loop of Add runs to its return under the lock, and the
\* deferred Unlock runs.  uuid.New() returns a key of the store or an id
\* never issued before.
AddRun(r) ==
    /\ pc[r] = "adding"
    /\ mu = r
    /\ \E collisions \in CollisionCounts,
          key \in DOMAIN data \cup {NoId},
          fresh \in Ids \ (issued \cup DOMAIN data) :
        /\ key = NoId <=> DOMAIN data = {}
        /\ collisions > 0 => key # NoId
        /\ LET out == Add(data, addCall[r].notification,
                          Draws(collisions, key, fresh))
           IN  /\ data' = out.data
               /\ issued' = IF out.err THEN issued
                            ELSE issued \cup {out.messageID}
               /\ addCall' = [addCall EXCEPT ![r] =
                                 [@ EXCEPT !.messageID = out.messageID,
                                           !.err = out.err,
                                           !.draws = out.draws]]
               /\ mu' = DeferredUnlock(mu, out.err)
    /\ pc' = [pc EXCEPT ![r] = "added"]
    /\ UNCHANGED <<form, messageID, resp, answers, pollerVars, brokerVars, wk>>

\* Lines 189-194: the handler takes what Add returned.
HandlerAfterAdd(r) ==
    /\ pc[r] = "added"
    /\ IF addCall[r].err
       THEN /\ Answer(r, 500, <<"Internal server error">>, "done")
            /\ UNCHANGED messageID
       ELSE /\ messageID' = [messageID EXCEPT ![r] = addCall[r].messageID]
            /\ pc' = [pc EXCEPT ![r] = "send"]
            /\ UNCHANGED <<resp, answers>>
    /\ UNCHANGED <<data, issued, form, pollerVars, brokerVars, storeVars, wk>>

\* Line 198, the argument notificationStore.Get(messageID): Get takes the
\* lock, reads and releases it; SendKafkaMessage is entered next.
HandlerGet(r) ==
    /\ pc[r] = "send"
    /\ mu = "none"
    /\ pc' = [pc EXCEPT ![r] = "publishing"]
    /\ UNCHANGED <<data, issued, form, messageID, resp, answers, pollerVars,
                   brokerVars, storeVars, wk>>

\* Lines 198-209: SendKafkaMessage returns, as in HandlerSend.
HandlerPublish(r) ==
    /\ pc[r] = "publishing"
    /\ \/ /\ chanQ' = [chanQ EXCEPT ![form[r].mode] =
                          Append(@, Marshal(Get(data, messageID[r])))]
          /\ pc' = [pc EXCEPT ![r] = "await"]
          /\ pcP' = [pcP EXCEPT ![r] = "select"]
          /\ UNCHANGED <<resp, answers>>
       \/ /\ Answer(r, 500, <<"Internal server error">>, "done")
          /\ UNCHANGED <<chanQ, pcP>>
    /\ UNCHANGED <<data, issued, form, messageID, resultMsg, cancelled, chanPos,
                   procQ, procPos, procMarked, rewinds, pool, listener, receiver,
                   storeVars, wk>>

(* ---------------------------- specification --------------------------- *)

Next ==
    \/ \E r \in SoloReqs : Handler(r, Forms)
    \/ \E r \in SoloReqs : GetResults(r)
    \/ \E m \in Modes : ChannelConsume(m)
    \/ \E m \in Modes : ChannelRewind(m)
    \/ ServiceRun(ServiceRuns)
    \/ ListenerReceive
    \/ ReceiveProcessedNotification
    \/ ListenerRewind

Spec == Init /\ [][Next]_vars

\* Two requests at once; no consumer group resumes.
ConcInit == Init

ConcNext ==
    \/ \E r \in Reqs : Handler(r, ConcForms)
    \/ \E r \in Reqs : GetResults(r)
    \/ \E m \in Modes : ChannelConsume(m)
    \/ ServiceRun(ConcRuns)
    \/ ListenerReceive
    \/ ReceiveProcessedNotification

ConcSpec == ConcInit /\ [][ConcNext]_vars

\* ConcSpec with outcomes that may reach the processed topic undecodable;
\* the forms posted are those of ConcForms that pass validation.
DecodeForms == {f \in ConcForms : Validate(f).code = 0}

\* The runs drawn in DecodeSpec: every call succeeds, or two calls fail.
DecodeRuns == {RunResults(k, "e1", "e1") : k \in {0, 2}}

DecodeInit == Init

DecodeNext ==
    \/ \E r \in Reqs : Handler(r, DecodeForms)
    \/ \E r \in Reqs : GetResults(r)
    \/ \E m \in Modes : ChannelConsume(m)
    \/ ServiceRun(DecodeRuns)
    \/ ServiceRunUndecodable
    \/ ListenerReceive
    \/ ReceiveProcessedNotification

DecodeSpec == DecodeInit /\ [][DecodeNext]_vars

\* One request, with ReceiveKafkaMessage followed from its first line.
ReceiverInit ==
    /\ SystemInit
    /\ wk = IdleWorker
    /\ receiver = [pc |-> "init", ctxErr |-> FALSE, errors |-> 0]

ReceiverNext ==
    \/ ReceiverStart
    \/ ReceiverConsumeReturns
    \/ ReceiverCheck
    \/ ReceiverCancel
    \/ \E r \in SoloReqs : Handler(r, DecodeForms)
    \/ \E r \in SoloReqs : GetResults(r)
    \/ \E m \in Modes : ChannelConsume(m)
    \/ ServiceRun(DecodeRuns)
    \/ ListenerReceive
    \/ ReceiveProcessedNotification

ReceiverSpec == ReceiverInit /\ [][ReceiverNext]_vars

\* Two requests, with Add and the lock of the store followed step by step:
\* an operation on the store waits while another goroutine holds ns.mu.
StoreForms == {f \in DecodeForms : f.mode = "email"}

StoreInit == Init

StoreNext ==
    \/ \E r \in Reqs : HandlerCallsAdd(r, StoreForms)
    \/ \E r \in Reqs : AddRun(r)
    \/ \E r \in Reqs : HandlerAfterAdd(r)
    \/ \E r \in Reqs : HandlerGet(r)
    \/ \E r \in Reqs : HandlerPublish(r)
    \/ \E r \in Reqs : HandlerReceive(r)
    \/ \E r \in Reqs : mu = "none" /\ HandlerFailed(r)
    \/ \E r \in Reqs : HandlerTimeout(r)
    \/ \E r \in Reqs : mu = "none" /\ HandlerDelete(r)
    \/ \E r \in Reqs : HandlerReturn(r)
    \/ \E r \in Reqs : mu = "none" /\ GetResultsTick(r)
    \/ \E r \in Reqs : GetResultsDone(r)
    \/ \E m \in Modes : ChannelConsume(m)
    \/ ServiceRun(DecodeRuns)
    \/ ListenerReceive
    \/ mu = "none" /\ ReceiveProcessedNotification

StoreSpec == StoreInit /\ [][StoreNext]_vars

\* Add has no blocking call inside: a goroutine in it runs to its return.
FairStoreSpec == StoreSpec /\ \A r \in Reqs : WF_vars(AddRun(r))

(* ------------------- one service goroutine, step by step -------------- *)

\* The notification a handler publishes for a request with this mode and
\* retry bound: what Add stored, read back by Get.
PublishedNotification(mode, maxRetryAttempts) ==
    [NewNotification(mode, "hi", maxRetryAttempts, "") EXCEPT
        !.TimeStamp = 1, !.MessageID = "u1"]

WorkerInit ==
    /\ SystemInit
    /\ receiver = RunningReceiver
    /\ \E m \in Modes, maxRetryAttempts \in MinRetryInput..MaxRetryInput :
        wk = [pc |-> "run", mode |-> m,
              notification |-> PublishedNotification(m, maxRetryAttempts),
              emailSendCount |-> 0, attempts |-> 0, failures |-> 0,
              lastErr |-> "", published |-> <<>>]

\* The worker after one pass `it` of its service, whose delivery call
\* returned res; SendKafkaMessage appends to the processed topic or fails.
WorkerAfter(it, res, sendOk) ==
    /\ wk' = [wk EXCEPT
                !.pc = IF it.return THEN "returned" ELSE "run",
                !.notification = it.n,
                !.emailSendCount = @ + 1,
                !.attempts = @ + 1,
                !.failures = IF res = "ok" THEN @ ELSE @ + 1,
                !.lastErr = IF res = "ok" THEN @ ELSE res,
                !.published = IF it.publish THEN Append(@, it.n) ELSE @]
    /\ procQ' = IF it.publish /\ sendOk THEN Append(procQ, Marshal(it.n)) ELSE procQ

\* One iteration of the loop of emailService, lines 124-157.
EmailStep ==
    /\ wk.pc = "run"
    /\ wk.mode = "email"
    /\ IF wk.emailSendCount > maxEmailRetries
       THEN /\ wk' = [wk EXCEPT !.pc = "returned"]
            /\ UNCHANGED procQ
       ELSE \E res \in AttemptResults, sendOk \in BOOLEAN :
                WorkerAfter(emailIteration(wk.notification, res), res, sendOk)
    /\ UNCHANGED <<data, issued, handlerVars, pollerVars, chanQ, chanPos,
                   procPos, procMarked, rewinds, pool, listener, receiver, storeVars>>

\* slackService, lines 35-55.
SlackStep ==
    /\ wk.pc = "run"
    /\ wk.mode = "slack"
    /\ \E res \in AttemptResults, sendOk \in BOOLEAN :
        WorkerAfter(slackService(wk.notification, res), res, sendOk)
    /\ UNCHANGED <<data, issued, handlerVars, pollerVars, chanQ, chanPos,
                   procPos, procMarked, rewinds, pool, listener, receiver, storeVars>>

\* smsService, lines 251-270; the SendSMS call fails with or without a
\* message in its response.
SmsStep ==
    /\ wk.pc = "run"
    /\ wk.mode = "sms"
    /\ \E res \in AttemptResults, hasMessages \in BOOLEAN, sendOk \in BOOLEAN :
        IF sendSmsPanics(res, hasMessages)
        THEN /\ wk' = [wk EXCEPT !.pc = "panicked", !.attempts = @ + 1,
                                 !.failures = @ + 1, !.lastErr = res]
             /\ UNCHANGED procQ
        ELSE WorkerAfter(smsService(wk.notification, res), res, sendOk)
    /\ UNCHANGED <<data, issued, handlerVars, pollerVars, chanQ, chanPos,
                   procPos, procMarked, rewinds, pool, listener, receiver, storeVars>>

WorkerNext == EmailStep \/ SlackStep \/ SmsStep

WorkerSpec == WorkerInit /\ [][WorkerNext]_vars

(* ------------------------------ fairness ------------------------------ *)

\* A handler goroutine that can take a step eventually takes one: the Go
\* scheduler runs it, and the timer of time.After fires.
FairConcSpec ==
    ConcSpec /\ \A r \in Reqs : WF_vars(Handler(r, ConcForms))

\* The same for DecodeSpec, and the listener goroutine keeps running: a
\* message waiting in the claim is eventually taken, a callback returns.
FairDecodeSpec ==
    /\ DecodeSpec
    /\ \A r \in Reqs : WF_vars(Handler(r, DecodeForms))
    /\ WF_vars(ListenerReceive)
    /\ WF_vars(ReceiveProcessedNotification)

(* ------------------------------- claims ------------------------------- *)

\* The request was validated, added and published: GetResults was started.
Published(r) == pcP[r] # "none"

\* An outcome for this id has been handed to the listener.
Delivered(id) ==
    \E i \in 1..procPos :
        procQ[i].kind = "json" /\ procQ[i].body.MessageID = id

TimeoutResponse ==
    [code |-> 408,
     message |-> <<"Notification sending timed out (", "60", " seconds)">>]

C1_Safety ==
    \A r \in Reqs :
        Published(r) =>
            /\ answers[r] <= 1
            /\ pc[r] \in {"delete", "return", "done"} => answers[r] = 1
            /\ (pc[r] = "done" /\ ~Delivered(messageID[r])) => resp[r] = TimeoutResponse

\* C1: every published request is eventually answered, exactly once; when no
\* outcome for its id reaches the listener the answer is the timeout response.
C1_AnsweredOnce ==
    /\ []C1_Safety
    /\ \A r \in Reqs : Published(r) ~> (pc[r] = "done")

C1_Witness ==
    \E r \in Reqs :
        /\ Published(r)
        /\ pc[r] = "done"
        /\ ~Delivered(messageID[r])
        /\ resp[r] = TimeoutResponse
        /\ answers[r] = 1

\* C2: after a failed SendKafkaMessage the handler has answered 500 and the
\* entry Add created is gone from the store when it returns.
C2_PublishFailureDeletes ==
    \A r \in Reqs :
        (pc[r] = "done" /\ resp[r].code = 500 /\ messageID[r] # NoId)
            => messageID[r] \notin DOMAIN data

\* C3: once the handler has answered and returned, the store holds no entry
\* under its id, whatever the listener does afterwards.
C3_NoEntryOutlivesRequest ==
    \A r \in Reqs :
        (pc[r] = "done" /\ resp[r].code \in {200, 408})
            => messageID[r] \notin DOMAIN data

\* C4: on each answering branch (success, delivery failure, timeout) the
\* handler goes through Delete before it returns, and when it has executed
\* the Delete the entry of its id is not in the store.
C4_DeleteOnEveryBranch ==
    /\ [](\A r \in Reqs :
            resp[r].code \in {200, 408} => pc[r] \in {"delete", "return", "done"})
    /\ [][\A r \in Reqs :
            (pc[r] # "return" /\ pc'[r] = "return")
                => (pc[r] = "delete" /\ messageID[r] \notin DOMAIN data')]_vars

C4_Witness ==
    \E r \in Reqs :
        /\ pc[r] = "return"
        /\ resp[r].code = 408
        /\ resp[r] # TimeoutResponse
        /\ messageID[r] \notin DOMAIN data
        /\ Delivered(messageID[r])

\* C5: a 200 is written only on a true sent by the request's own poller, which
\* sends it only for a snapshot with IsSent read under the request's id; a
\* delivery-failure answer only on a false, sent only for a snapshot with a
\* reason read under that id; the timeout message only by the timeout case,
\* which takes nothing from the poller.
C5_AnswerJustified ==
    [][\A r \in Reqs :
        /\ (pcP[r] = "select" /\ pcP'[r] \in {"sendTrue", "sendFalse"})
              => /\ messageID[r] \in DOMAIN data
                 /\ resultMsg'[r] = data[messageID[r]]
                 /\ resultMsg'[r].MessageID = messageID[r]
        /\ (resp[r] = NoResponse /\ resp'[r].code = 200)
              => /\ pcP[r] = "sendTrue"
                 /\ resultMsg[r].IsSent
                 /\ resultMsg[r].MessageID = messageID[r]
        /\ (pc[r] # "failed" /\ pc'[r] = "failed")
              => /\ pcP[r] = "sendFalse"
                 /\ resultMsg[r].FailReason # <<>>
                 /\ resultMsg[r].MessageID = messageID[r]
        /\ (resp[r] = NoResponse /\ resp'[r].code = 408 /\ resp'[r] # TimeoutResponse)
              => pc[r] = "failed"
        /\ (resp[r] = NoResponse /\ resp'[r] = TimeoutResponse)
              => (pc[r] = "await" /\ pcP'[r] = pcP[r])
      ]_vars

\* Two requests answered differently, each from the snapshot of its own id.
C5_Witness ==
    \E r1 \in Reqs, r2 \in Reqs :
        /\ resp[r1].code = 200
        /\ resp[r2].code = 408
        /\ resp[r2] # TimeoutResponse
        /\ messageID[r1] # messageID[r2]

\* terminalState of a snapshot.
TerminalState(n) ==
    IF n.IsSent THEN "sent"
    ELSE IF n.FailReason # <<>> THEN "failed"
    ELSE "pending"

\* C6 as stated: once the snapshot stored for an id is sent or failed, no
\* Update changes its terminal state.
C6_TerminalStateNeverChanges ==
    [][\A k \in Ids :
        (k \in DOMAIN data /\ k \in DOMAIN data'
            /\ TerminalState(data[k]) # "pending")
          => TerminalState(data'[k]) = TerminalState(data[k])]_vars

\* C6 as amended: once the snapshot stored for an id is sent or failed, no
\* Update puts it back to pending.
C6_NeverBackToPending ==
    [][\A k \in Ids :
        (k \in DOMAIN data /\ k \in DOMAIN data'
            /\ TerminalState(data[k]) # "pending")
          => TerminalState(data'[k]) # "pending"]_vars

\* The listener is about to overwrite a terminal snapshot with the other
\* terminal state.
C6_Witness ==
    /\ listener.pc = "callback"
    /\ listener.notification.MessageID \in DOMAIN data
    /\ TerminalState(data[listener.notification.MessageID]) = "failed"
    /\ TerminalState(listener.notification) = "sent"

\* The texts of max_retry_attempts among FormRetries that are no integer.
NotIntegers == {<<"a">>, <<"2", "x">>, <<"-">>}

InvalidForm(f) ==
    \/ f.mode \notin {"email", "sms", "slack"}
    \/ f.message = ""
    \/ f.max_retry_attempts \in NotIntegers

\* C7: a request with an invalid form is answered 400, with the store and
\* every topic as they were, and it never gets an id or a poller.
C7_ValidationRejects ==
    /\ [](\A r \in Reqs :
            (pc[r] # "start" /\ InvalidForm(form[r]))
                => /\ pc[r] = "done"
                   /\ resp[r].code = 400
                   /\ answers[r] = 1
                   /\ messageID[r] = NoId
                   /\ pcP[r] = "none")
    /\ [][\A r \in Reqs :
            (pc[r] = "start" /\ pc'[r] # "start" /\ InvalidForm(form'[r]))
                => /\ data' = data
                   /\ chanQ' = chanQ
                   /\ procQ' = procQ]_vars

C7_Witness ==
    \E r \in Reqs :
        /\ pc[r] = "done"
        /\ resp[r].code = 400
        /\ form[r].mode = "email"
        /\ form[r].message = "hi"
        /\ form[r].max_retry_attempts = <<"2", "x">>
        /\ data = << >>

(* ----------------------- claims about the services -------------------- *)

Min(a, b) == IF a < b THEN a ELSE b
Max(a, b) == IF a > b THEN a ELSE b

\* sub occurs in text as a contiguous run of pieces.
Contains(text, sub) ==
    \E i \in 0..(Len(text) - Len(sub)) :
        SubSeq(text, i + 1, i + Len(sub)) = sub

\* The retry bound the worker was given.
GivenMaxRetryAttempts == wk.notification.MaxRetryAttempts

\* The service has returned and every delivery call it made failed.
ReturnedAllFailed ==
    /\ wk.pc = "returned"
    /\ wk.attempts > 0
    /\ wk.failures = wk.attempts

\* The service handed exactly one outcome to SendKafkaMessage, a failed one
\* whose reason mentions "Too many failed attempts".
PublishedTooManyFailed ==
    /\ Len(wk.published) = 1
    /\ ~wk.published[1].IsSent
    /\ Contains(wk.published[1].FailReason, <<"Too many failed attempts.">>)

\* C8 as stated: with every attempt failing, emailService makes exactly
\* min(MaxRetryAttempts, maxEmailRetries) attempts and then publishes a
\* failed outcome.
C8_AttemptsAreMinOfBounds ==
    (ReturnedAllFailed /\ wk.mode = "email")
        => /\ wk.attempts = Min(GivenMaxRetryAttempts, maxEmailRetries)
           /\ PublishedTooManyFailed

\* C8 as amended: exactly min(MaxRetryAttempts, maxEmailRetries) attempts
\* when MaxRetryAttempts is at least 1, exactly one attempt when it is 0 or
\* negative; then one failed outcome is handed to SendKafkaMessage.
C8_AttemptsAtLeastOne ==
    (ReturnedAllFailed /\ wk.mode = "email")
        => /\ wk.attempts = IF GivenMaxRetryAttempts >= 1
                            THEN Min(GivenMaxRetryAttempts, maxEmailRetries)
                            ELSE 1
           /\ PublishedTooManyFailed

\* The scenario of the claim: a bound of 2, two failed attempts, no third.
C8_Witness ==
    /\ ReturnedAllFailed
    /\ wk.mode = "email"
    /\ GivenMaxRetryAttempts = 2
    /\ wk.attempts = 2
    /\ PublishedTooManyFailed

\* C9: when every delivery attempt failed, the reason of the outcome the
\* service publishes contains the error text of the last attempt.
C9_ReasonHasLastError ==
    ReturnedAllFailed
        => \A i \in 1..Len(wk.published) :
              Contains(wk.published[i].FailReason, <<wk.lastErr>>)

\* C10: NumOfRepetitions never exceeds max(MaxRetryAttempts, maxEmailRetries).
C10_RepetitionsBounded ==
    /\ wk.notification.NumOfRepetitions
          <= Max(GivenMaxRetryAttempts, maxEmailRetries)
    /\ \A i \in 1..Len(wk.published) :
          wk.published[i].NumOfRepetitions
              <= Max(wk.published[i].MaxRetryAttempts, maxEmailRetries)

\* The hard cap is reached before the caller's larger bound.
C10_Witness ==
    /\ wk.pc = "returned"
    /\ wk.mode = "email"
    /\ GivenMaxRetryAttempts > maxEmailRetries
    /\ wk.notification.NumOfRepetitions = maxEmailRetries

\* C11: a worker makes boundedly many attempts and stops only by returning,
\* having handed exactly one outcome to SendKafkaMessage, a terminal one for
\* the request it received; sms and slack do so after a single attempt.
C11_PublishesOneOutcome ==
    /\ wk.pc \in {"run", "returned"}
    /\ wk.attempts <= maxEmailRetries + 1
    /\ Len(wk.published) <= 1
    /\ wk.pc = "returned"
          => /\ Len(wk.published) = 1
             /\ TerminalState(wk.published[1]) # "pending"
             /\ wk.published[1].MessageID = "u1"
    /\ (wk.pc = "returned" /\ wk.mode \in {"sms", "slack"}) => wk.attempts = 1

\* C12: in every outcome on the processed topic and every snapshot in the
\* store, a snapshot with IsSent = true has an empty FailReason.
C12_ReasonOnlyWhenFailed ==
    /\ \A i \in 1..Len(procQ) :
          (procQ[i].kind = "json" /\ procQ[i].body.IsSent)
              => procQ[i].body.FailReason = <<>>
    /\ \A k \in DOMAIN data : data[k].IsSent => data[k].FailReason = <<>>

\* C13: every invocation of the handler ends having written exactly one
\* response: 400 for an invalid form, 500 when Add or the publish failed, 200
\* on a true received from the poller, 408 on a false received from it and
\* 408 with the timeout text when the hard deadline expired.
C13_OneResponseByCause ==
    /\ [](\A r \in Reqs :
            /\ answers[r] <= 1
            /\ pc[r] \in {"delete", "return", "done"} => answers[r] = 1)
    /\ [][\A r \in Reqs :
            /\ answers'[r] = answers[r] => resp'[r] = resp[r]
            /\ answers'[r] # answers[r] =>
                  /\ answers[r] = 0
                  /\ answers'[r] = 1
                  /\ \/ /\ resp'[r].code = 400
                        /\ pc[r] = "start"
                        /\ InvalidForm(form'[r])
                     \/ /\ resp'[r].code = 500
                        /\ pc[r] = "start"
                        /\ ~InvalidForm(form'[r])
                        /\ messageID'[r] = NoId
                     \/ /\ resp'[r].code = 500
                        /\ pc[r] = "send"
                     \/ /\ resp'[r].code = 200
                        /\ pc[r] = "await"
                        /\ pcP[r] = "sendTrue"
                     \/ /\ resp'[r].code = 408
                        /\ resp'[r] # TimeoutResponse
                        /\ pc[r] = "failed"
                     \/ /\ resp'[r] = TimeoutResponse
                        /\ pc[r] = "await"]_vars
    /\ \A r \in Reqs : (pc[r] # "start") ~> (pc[r] = "done" /\ answers[r] = 1)

\* One request refused by Add while the other, admitted, was answered with
\* the delivery failure of its own outcome.
C13_Witness ==
    \E r1 \in Reqs, r2 \in Reqs :
        /\ pc[r1] = "done"
        /\ resp[r1].code = 500
        /\ messageID[r1] = NoId
        /\ pc[r2] = "done"
        /\ resp[r2].code = 408
        /\ resp[r2] # TimeoutResponse
        /\ answers[r1] = 1
        /\ answers[r2] = 1

\* C14: GetResults is never left blocked on a send to wasSuccessful: once
\* the handler has returned nothing receives from the channel any more, so
\* the poller of a returned handler is not at one of its two sends.
C14_PollerNeverStranded ==
    \A r \in Reqs :
        pc[r] = "done" => pcP[r] \notin {"sendTrue", "sendFalse"}

\* C15: when the handler writes the delivery-failure response, the reason in
\* it is non-empty and is the FailReason of a failed snapshot stored under
\* the request's id.
C15_ReasonOfFailedSnapshot ==
    [][\A r \in Reqs :
        (pc[r] = "failed" /\ pc'[r] # "failed")
            => /\ messageID[r] \in DOMAIN data
               /\ TerminalState(data[messageID[r]]) = "failed"
               /\ Tail(resp'[r].message) = data[messageID[r]].FailReason
               /\ Tail(resp'[r].message) # <<>>]_vars

\* C16: while the Update for a decoded message of the processed topic has
\* not been applied yet (the callback is still to run), that message is not
\* marked as consumed.
C16_UpdateBeforeMark ==
    listener.pc = "callback" => procMarked < procPos

\* The outcome published for this id reached the topic undecodable.
OutcomeUndecodable(id) ==
    \E i \in 1..Len(procQ) :
        procQ[i].kind # "json" /\ procQ[i].body.MessageID = id

\* C17: the listener's step on a message that does not decode changes
\* neither the store nor the mark and starts no callback; every message put
\* on the processed topic, before or after it, is eventually taken by the
\* listener; and the request whose outcome was undecodable ends answered
\* with the timeout response.
C17_DecodeFailureSkipped ==
    /\ [][(procPos' = procPos + 1 /\ procQ[procPos + 1].kind # "json")
            => /\ data' = data
               /\ procMarked' = procMarked
               /\ listener' = listener
               /\ listener.pc = "receive"]_vars
    /\ [](NoId \notin DOMAIN data)
    /\ [](\A r \in Reqs :
            (pc[r] = "done" /\ Published(r) /\ OutcomeUndecodable(messageID[r]))
                => resp[r] = TimeoutResponse)
    /\ \A i \in 1..Cardinality(Reqs) : (Len(procQ) >= i) ~> (procPos >= i)
    /\ \A r \in Reqs :
          (Published(r) /\ OutcomeUndecodable(messageID[r])) ~> (pc[r] = "done")

\* An undecodable outcome was skipped, the outcome after it was stored, and
\* the request of the undecodable one was answered by the timeout.
C17_Witness ==
    /\ Len(procQ) = 2
    /\ procQ[1].kind # "json"
    /\ procQ[2].kind = "json"
    /\ procPos = 2
    /\ listener.pc = "receive"
    /\ procQ[2].body.MessageID \in DOMAIN data
    /\ data[procQ[2].body.MessageID] = procQ[2].body
    /\ \E r \in Reqs :
          /\ messageID[r] = procQ[1].body.MessageID
          /\ pc[r] = "done"
          /\ resp[r] = TimeoutResponse

\* C18: ReceiveKafkaMessage never crashes, whatever broker errors it meets,
\* and it has returned only if its context was cancelled.
C18_StopsOnlyOnCancel ==
    /\ receiver.pc # "panicked"
    /\ receiver.pc = "returned" => receiver.ctxErr

\* A message carrying this id has been published to a channel topic.
OnChannel(id) ==
    \E m \in Modes : \E i \in 1..Len(chanQ[m]) :
        chanQ[m][i].kind = "json" /\ chanQ[m][i].body.MessageID = id

\* C19: a message appended to a channel topic is the stored snapshot of a
\* handler that has its id from Add, the id being a key of the store at that
\* moment; the listener applies an Update only for an id already published
\* on a channel topic, and every outcome on the processed topic is for such
\* an id.
C19_RegisterPublishUpdate ==
    /\ [][\A m \in Modes :
            chanQ'[m] # chanQ[m]
                => /\ Len(chanQ'[m]) = Len(chanQ[m]) + 1
                   /\ LET msg == chanQ'[m][Len(chanQ'[m])]
                      IN  /\ msg.kind = "json"
                          /\ msg.body.MessageID \in DOMAIN data
                          /\ msg.body.MessageID \in issued
                          /\ msg.body = data[msg.body.MessageID]
                          /\ \E r \in Reqs :
                                /\ pc[r] = "send"
                                /\ messageID[r] = msg.body.MessageID]_vars
    /\ [][(listener.pc = "callback" /\ listener'.pc # "callback")
            => /\ OnChannel(listener.notification.MessageID)
               /\ data'[listener.notification.MessageID] = listener.notification]_vars
    /\ [](\A i \in 1..Len(procQ) :
            procQ[i].kind = "json" => OnChannel(procQ[i].body.MessageID))
    /\ [](\A r \in Reqs :
            (messageID[r] # NoId /\ pc[r] = "send") => ~OnChannel(messageID[r]))

\* Both requests registered and published under different ids, and the
\* outcome of one of them stored by the listener.
C19_Witness ==
    \E r1 \in Reqs, r2 \in Reqs :
        /\ messageID[r1] # NoId
        /\ messageID[r2] # NoId
        /\ messageID[r1] # messageID[r2]
        /\ OnChannel(messageID[r1])
        /\ OnChannel(messageID[r2])
        /\ pc[r1] = "await"
        /\ messageID[r1] \in DOMAIN data
        /\ TerminalState(data[messageID[r1]]) # "pending"

\* C20: a successful Add returns an id that was no key of the store, stores
\* the notification under it with MessageID set to that id, IsSent = false
\* and an empty FailReason, and leaves every other entry as it was; no two
\* handlers hold the same id.
C20_AddFreshId ==
    /\ [][\A r \in Reqs :
            messageID'[r] # messageID[r]
                => /\ messageID[r] = NoId
                   /\ messageID'[r] \notin DOMAIN data
                   /\ DOMAIN data' = DOMAIN data \cup {messageID'[r]}
                   /\ data'[messageID'[r]].MessageID = messageID'[r]
                   /\ ~data'[messageID'[r]].IsSent
                   /\ data'[messageID'[r]].FailReason = <<>>
                   /\ data'[messageID'[r]].Mode = form'[r].mode
                   /\ data'[messageID'[r]].Message = form'[r].message
                   /\ \A k \in DOMAIN data : data'[k] = data[k]]_vars
    /\ [](\A r1 \in Reqs, r2 \in Reqs :
            (messageID[r1] # NoId /\ messageID[r1] = messageID[r2]) => r1 = r2)

\* Two handlers just back from Add, each with its own entry in the store.
C20_Witness ==
    \E r1 \in Reqs, r2 \in Reqs :
        /\ pc[r1] = "send"
        /\ pc[r2] = "send"
        /\ messageID[r1] # messageID[r2]
        /\ {messageID[r1], messageID[r2]} \subseteq DOMAIN data
        /\ data[messageID[r1]].MessageID = messageID[r1]
        /\ data[messageID[r2]].MessageID = messageID[r2]

\* The call of Add by request r returned with the error.
AddGaveUp(r) == pc[r] \in {"added", "done"} /\ addCall[r].err

\* C21 as stated: Add gives up after 500 generated ids, so a call that
\* returned the error generated 500 of them and no call generated more.
C21_GivesUpAfter500 ==
    \A r \in Reqs :
        /\ AddGaveUp(r) => addCall[r].draws = 500
        /\ addCall[r].draws <= 500

\* C21: Add returns the error only after maxChecks + 1 = 501 generated ids,
\* each a key of the store (a 501st id that is free is still taken); the
\* call leaves the store as it was and returns the zero id; the handler then
\* answers 500, appends nothing to a channel topic, starts no poller and
\* keeps no id.
C21_AddGivesUp ==
    /\ [](\A r \in Reqs :
            /\ addCall[r].draws <= maxChecks + 1
            /\ AddGaveUp(r) =>
                  /\ addCall[r].draws = maxChecks + 1
                  /\ addCall[r].messageID = NoId
                  /\ messageID[r] = NoId
                  /\ ~Published(r)
            /\ AddGaveUp(r) /\ pc[r] = "done" =>
                  /\ resp[r] = [code |-> 500, message |-> <<"Internal server error">>]
                  /\ answers[r] = 1)
    /\ [][\A r \in Reqs :
            /\ pc[r] = "adding" /\ pc'[r] = "added" /\ addCall'[r].err =>
                  /\ data' = data
                  /\ DOMAIN data # {}
            /\ pc[r] = "adding" /\ pc'[r] = "added" /\ ~addCall'[r].err =>
                  /\ addCall'[r].messageID \notin DOMAIN data
                  /\ DOMAIN data' = DOMAIN data \cup {addCall'[r].messageID}
            /\ pc[r] = "added" /\ pc'[r] # "added" /\ addCall[r].err =>
                  /\ pc'[r] = "done"
                  /\ chanQ' = chanQ
                  /\ data' = data]_vars

\* A request answered 500 after its Add generated 501 ids that were all the
\* key of the other request, whose entry is still in the store.
C21_Witness ==
    \E r1 \in Reqs, r2 \in Reqs :
        /\ r1 # r2
        /\ pc[r1] = "done"
        /\ addCall[r1].err
        /\ addCall[r1].draws = maxChecks + 1
        /\ resp[r1].code = 500
        /\ messageID[r2] \in DOMAIN data

\* The text begins with the pieces of `prefix`.
HasPrefix(text, prefix) ==
    Len(text) >= Len(prefix) /\ SubSeq(text, 1, Len(prefix)) = prefix

\* "Too many failed attempts. Last attempt failed with:"
CallerBoundPrefix == <<"Too many failed attempts.", "Last attempt failed with:">>

\* "Too many failed attempts. Max number of retries reached."
HardCapPrefix == <<"Too many failed attempts.", "Max number of retries reached.">>

\* The failed outcomes the email service handed to SendKafkaMessage.
FailedEmailOutcomes ==
    IF wk.mode = "email"
    THEN {wk.published[i] : i \in {j \in 1..Len(wk.published) : ~wk.published[j].IsSent}}
    ELSE {}

\* C22 as stated: a failed email outcome has the prefix of the caller's
\* bound exactly when MaxRetryAttempts < maxEmailRetries and the prefix of
\* the hard cap exactly when MaxRetryAttempts >= maxEmailRetries.
C22_PrefixByStrictBound ==
    \A n \in FailedEmailOutcomes :
        /\ HasPrefix(n.FailReason, CallerBoundPrefix)
              <=> n.MaxRetryAttempts < maxEmailRetries
        /\ HasPrefix(n.FailReason, HardCapPrefix)
              <=> n.MaxRetryAttempts >= maxEmailRetries

\* C22: a failed email outcome has exactly one of the two prefixes: that of
\* the caller's bound exactly when MaxRetryAttempts <= maxEmailRetries (then
\* NumOfRepetitions >= MaxRetryAttempts), and that of the hard cap exactly
\* when MaxRetryAttempts > maxEmailRetries (then NumOfRepetitions is
\* maxEmailRetries, below the caller's bound).  A bound equal to the hard
\* cap is reported as the caller's.
C22_PrefixTellsCause ==
    \A n \in FailedEmailOutcomes :
        /\ HasPrefix(n.FailReason, CallerBoundPrefix)
              <=> n.MaxRetryAttempts <= maxEmailRetries
        /\ HasPrefix(n.FailReason, HardCapPrefix)
              <=> n.MaxRetryAttempts > maxEmailRetries
        /\ HasPrefix(n.FailReason, CallerBoundPrefix)
              # HasPrefix(n.FailReason, HardCapPrefix)
        /\ HasPrefix(n.FailReason, CallerBoundPrefix)
              => n.NumOfRepetitions >= n.MaxRetryAttempts
        /\ HasPrefix(n.FailReason, HardCapPrefix)
              => /\ n.NumOfRepetitions = maxEmailRetries
                 /\ n.NumOfRepetitions < n.MaxRetryAttempts

\* The email service returned after maxEmailRetries failed attempts with a
\* caller's bound equal to the hard cap, and the outcome carries the prefix
\* of the caller's bound.
C22_Witness ==
    /\ ReturnedAllFailed
    /\ wk.mode = "email"
    /\ GivenMaxRetryAttempts = maxEmailRetries
    /\ wk.attempts = maxEmailRetries
    /\ Len(wk.published) = 1
    /\ HasPrefix(wk.published[1].FailReason, CallerBoundPrefix)

\* The handler of r is blocked in SendKafkaMessage or in its select, or the
\* poller of r is blocked on a send to wasSuccessful.
Waiting(r) ==
    \/ pc[r] \in {"publishing", "await"}
    \/ pcP[r] \in {"sendTrue", "sendFalse"}

\* C23: the lock of the store is held only by a goroutine inside Add, never
\* by a request that is waiting (in SendKafkaMessage, in the select of the
\* handler, or with its poller blocked on a channel send); a lock that is
\* held is released, so an operation on the store that waits for the lock
\* goes on and the call of Add in progress returns, however many requests
\* are waiting.
C23_NoLockWhileWaiting ==
    /\ [](\A r \in Reqs :
            /\ mu = r <=> pc[r] = "adding"
            /\ Waiting(r) => mu # r)
    /\ (mu # "none") ~> (mu = "none")

\* One request waits in its select with its poller blocked on the send
\* while the handler of the other request holds the lock inside Add.
C23_Witness ==
    \E r1 \in Reqs, r2 \in Reqs :
        /\ pc[r1] = "await"
        /\ pcP[r1] \in {"sendTrue", "sendFalse"}
        /\ pc[r2] = "adding"
        /\ mu = r2

====
